---- MODULE Spec2Model ----
(***************************************************************************)
(* A model of storage-master (src/module/storage-master.js).  Class        *)
(* Storage: the in-memory sequence of records, the field schema, the       *)
(* type-check option and the backing file, with one action per public      *)
(* operation; the walk of forEach; the queries; the autosave timers and    *)
(* the exit and SIGINT listeners of the process.  Class ObjectStorage: its *)
(* mapping under set and get.                                              *)
(***************************************************************************)
EXTENDS Integers, Sequences, FiniteSets, TLC

(***************************************************************************)
(* Bounds of the model.                                                    *)
(***************************************************************************)
\* The longest in-memory sequence explored.
MaxRows == 2
\* The largest generated id explored; stands for 2147483648 in #generateID.
MaxRandom == 1

\* The most calls of its closures one invocation of the callback makes.
MaxCalls == 2

(***************************************************************************)
(* JavaScript values.  t is what typeof answers, except for null; a number *)
(* keeps its value in n, a string in s, a boolean as n = 1 or n = 0; the   *)
(* number NaN is tagged in s.                                              *)
(***************************************************************************)
Undefined == [t |-> "undefined", n |-> 0, s |-> ""]

Null == [t |-> "null", n |-> 0, s |-> ""]

NaN == [t |-> "number", n |-> 0, s |-> "NaN"]

Num(n) == [t |-> "number", n |-> n, s |-> ""]

Str(s) == [t |-> "string", n |-> 0, s |-> s]

Bool(b) == [t |-> "boolean", n |-> IF b THEN 1 ELSE 0, s |-> ""]

\* typeof data
TypeOf(data) == IF data.t = "null" THEN "object" ELSE data.t

\* ToNumber of a string, for the strings of the model.
StringToNumber(s) ==
  CASE s = "" -> Num(0)
    [] s = "0" -> Num(0)
    [] s = "1" -> Num(1)
    [] s = "2" -> Num(2)
    [] s = "3" -> Num(3)
    [] OTHER -> NaN

\* a == b between two numbers (NaN equals nothing)
NumberEq(a, b) == a.s # "NaN" /\ b.s # "NaN" /\ a.n = b.n

\* ToNumber of a primitive that is compared with ==
ToNumber(a) ==
  CASE a.t = "number" -> a
    [] a.t = "string" -> StringToNumber(a.s)
    [] a.t = "boolean" -> Num(a.n)
    [] a.t = "null" -> Num(0)
    [] OTHER -> NaN

\* a == b, JavaScript's loose equality on primitives
LooseEq(a, b) ==
  IF a.t \in {"null", "undefined"} \/ b.t \in {"null", "undefined"}
  THEN a.t \in {"null", "undefined"} /\ b.t \in {"null", "undefined"}
  ELSE IF a.t = "string" /\ b.t = "string"
  THEN a.s = b.s
  ELSE NumberEq(ToNumber(a), ToNumber(b))

\* a ?? b
Coalesce(a, b) == IF a.t \in {"null", "undefined"} THEN b ELSE a

(***************************************************************************)
(* Objects are functions from property names to values.                    *)
(***************************************************************************)
EmptyObject == [k \in {} |-> Undefined]

\* object[key] = value
SetKey(object, key, value) == (key :> value) @@ object

\* object?.[key] of a plain data object
Prop(object, key) == IF key \in DOMAIN object THEN object[key] ELSE Undefined

\* The property names every object literal inherits from Object.prototype
\* (the ones the model's inputs use).
ObjectPrototypeKeys == {"constructor", "toString"}

\* values[current], values being the entries of an object literal in
\* insertion order
Lookup(values, key) ==
  IF \E i \in 1..Len(values) : values[i].k = key
  THEN values[CHOOSE i \in 1..Len(values) : values[i].k = key].v
  ELSE Undefined

(***************************************************************************)
(* The state.                                                              *)
(***************************************************************************)
VARIABLES
  structure,  \* this.structure: the schema, its fields in declaration order
  options,    \* this.options
  file,       \* the backing file at this.directory
  storage,    \* this.storage: the in-memory sequence of records
  last,       \* the last operation: its name, arguments and whether it threw
  prev,       \* this.storage before the last operation
  each,       \* the forEach in progress, if any
  life,       \* the process: its timers, its listeners, whether it runs
  kv          \* an ObjectStorage: its options and its mapping

vars == <<structure, options, file, storage, last, prev, each, life, kv>>

(***************************************************************************)
(* The inputs explored.                                                    *)
(***************************************************************************)
Field(name, type, default, rename) ==
  [name |-> name, type |-> type, default |-> default, rename |-> rename]

\* { a: {type: 'number'}, b: {type: 'number', default: 0} }
SchemaAB ==
  << Field("a", "number", Undefined, ""), Field("b", "number", Num(0), "") >>

\* { a: {type: 'string', default: 'x', rename: 'n'} }
SchemaRename == << Field("a", "string", Str("x"), "n") >>

\* { id: {type: 'number'} }
SchemaId == << Field("id", "number", Undefined, "") >>

Schemas == {SchemaAB, SchemaRename, SchemaId}

\* options.checkType omitted, or false
OptionSets == {[checkType |-> Undefined], [checkType |-> Bool(FALSE)]}

Entry(k, v) == [k |-> k, v |-> v]

\* The ids passed to add, set and delete (Undefined: the id is omitted).
Ids == {Num(1), Str("1"), Undefined}

\* The values objects passed to add and set, as their entries.
ValuesArgs ==
  { <<>>,
    << Entry("a", Num(7)) >>,
    << Entry("a", Str("bad")) >>,
    << Entry("id", Num(2)) >>,
    << Entry("constructor", Num(3)) >>,
    << Entry("a", Num(7)), Entry("zzz", Num(3)) >> }

JsonFile(rows) == [kind |-> "json", rows |-> rows]

AbsentFile == [kind |-> "absent", rows |-> <<>>]

\* The backing files found at construction.
InitFiles ==
  { AbsentFile,
    JsonFile(<< [id |-> Str("1"), a |-> Str("bad")] >>) }

(***************************************************************************)
(* The schema.                                                             *)
(***************************************************************************)
\* Object.keys(this.structure)
FieldNames == {structure[i].name : i \in 1..Len(structure)}

Descriptor(field) ==
  structure[CHOOSE i \in 1..Len(structure) : structure[i].name = field]

\* field in this.structure
IsField(field) == field \in FieldNames \cup ObjectPrototypeKeys

\* this.structure[field].type, for a field that this.structure[field] finds
DeclaredType(field) ==
  IF field \in FieldNames THEN Str(Descriptor(field).type) ELSE Undefined

\* #isCorrectType(field, data): "true", "false", or "throw" when
\* this.structure[field] is undefined and its type is destructured
IsCorrectType(field, data) ==
  IF LooseEq(options.checkType, Bool(FALSE))
  THEN IF IsField(field) THEN "true" ELSE "false"
  ELSE IF ~IsField(field)
  THEN "throw"
  ELSE IF LooseEq(Str(TypeOf(data)), DeclaredType(field))
  THEN "true"
  ELSE "false"

\* #createRow without the type check: values[current] ?? default ?? null
CreateRowUnchecked(values) ==
  [current \in FieldNames |->
    Coalesce(Lookup(values, current), Coalesce(Descriptor(current).default, Null))]

\* #createRow(values)
CreateRow(values) ==
  [current \in FieldNames |->
    IF IsCorrectType(current, Lookup(values, current)) = "true"
    THEN Lookup(values, current)
    ELSE Coalesce(Descriptor(current).default, Null)]

\* { id: id ?? this.#generateID(), ...this.#createRow(values) }
NewRow(id, values, random) ==
  CreateRow(values) @@ ("id" :> Coalesce(id, random))

(***************************************************************************)
(* Lookup by id.                                                           *)
(***************************************************************************)
\* whether this.get(id) finds a record
Exists(rows, id) == \E i \in 1..Len(rows) : LooseEq(Prop(rows[i], "id"), id)

\* this.storage.findIndex((row) => row.id == id)
FindIndex(rows, id) ==
  CHOOSE i \in 1..Len(rows) :
    /\ LooseEq(Prop(rows[i], "id"), id)
    /\ \A j \in 1..(i - 1) : ~LooseEq(Prop(rows[j], "id"), id)

\* get(id)
Get(rows, id) == IF Exists(rows, id) THEN rows[FindIndex(rows, id)] ELSE Undefined

\* The values #generateID can return: a random number no record has.
FreeRandoms(rows) == {Num(r) : r \in {x \in 0..MaxRandom : ~Exists(rows, Num(x))}}

(***************************************************************************)
(* The backing file.                                                       *)
(***************************************************************************)
\* JSON.stringify of one value inside an object: undefined is left out by
\* the caller, NaN is written as null
JsonValue(v) == IF v.t = "number" /\ v.s = "NaN" THEN Null ELSE v

\* JSON.stringify of a record: properties holding undefined are left out
JsonObject(row) ==
  [k \in {x \in DOMAIN row : row[x].t # "undefined"} |-> JsonValue(row[k])]

\* JSON.stringify(this.storage, null, spaces)
JSONStringify(rows) == JsonFile([i \in 1..Len(rows) |-> JsonObject(rows[i])])

\* JSON.parse(fs.readFileSync(directory))
JSONParse(f) == f.rows

\* #createFile()
CreateFile(f) == IF f.kind = "absent" THEN JSONStringify(<<>>) ELSE f

\* the reduce of #structure over Object.keys(this.structure)
RECURSIVE StructureReduce(_, _, _)
StructureReduce(fields, row, previous) ==
  IF fields = <<>>
  THEN previous
  ELSE LET current == Head(fields)
           key == IF current.rename # "" THEN current.rename ELSE current.name
       IN StructureReduce(Tail(fields), row,
                          SetKey(previous, key, Prop(row, current.name)))

\* { id: row.id, ...structured }
StructureRow(row) ==
  StructureReduce(structure, row, EmptyObject) @@ ("id" :> Prop(row, "id"))

\* #structure()
Structure(rows) == [i \in 1..Len(rows) |-> StructureRow(rows[i])]

(***************************************************************************)
(* The operations.                                                         *)
(***************************************************************************)
Op(name, id, values, thrown) ==
  [op |-> name, id |-> id, values |-> values, thrown |-> thrown]

\* no forEach is in progress
NoEach == [pc |-> "idle"]

\* the process as far as a specification that leaves timers and listeners
\* out is concerned
NoLife == [proc |-> "running"]

\* no ObjectStorage is constructed
NoKv == [made |-> FALSE]

\* new Storage(directory, structure, options)
Init ==
  \E s \in Schemas, o \in OptionSets, f \in InitFiles :
    /\ structure = s
    /\ options = o
    /\ file = CreateFile(f)
    /\ storage = Structure(JSONParse(CreateFile(f)))
    /\ last = Op("construct", Undefined, <<>>, FALSE)
    /\ prev = <<>>
    /\ each = NoEach
    /\ life = NoLife
    /\ kv = NoKv

\* the push of add and set: a new record is appended
Push(name, id, values) ==
  IF id.t \in {"null", "undefined"}
  THEN IF FreeRandoms(storage) = {}
       THEN /\ storage' = storage
            /\ last' = Op(name, id, values, TRUE)
       ELSE \E random \in FreeRandoms(storage) :
              /\ storage' = Append(storage, NewRow(id, values, random))
              /\ last' = Op(name, id, values, FALSE)
  ELSE /\ storage' = Append(storage, NewRow(id, values, Undefined))
       /\ last' = Op(name, id, values, FALSE)

\* add without its guard: the record is pushed whether or not the id exists
AddAlwaysPushes(id, values) ==
  /\ Len(storage) < MaxRows
  /\ Push("add", id, values)
  /\ prev' = storage
  /\ UNCHANGED <<structure, options, file>>

\* add(id, values)
Add(id, values) ==
  /\ Exists(storage, id) \/ Len(storage) < MaxRows
  /\ IF ~Exists(storage, id)
     THEN Push("add", id, values)
     ELSE /\ storage' = storage
          /\ last' = Op("add", id, values, FALSE)
  /\ prev' = storage
  /\ UNCHANGED <<structure, options, file>>

\* the forEach over Object.entries(values) of set: the row after the
\* entries applied before one throws, or after all of them
RECURSIVE ApplyEntries(_, _)
ApplyEntries(row, entries) ==
  IF entries = <<>>
  THEN [row |-> row, thrown |-> FALSE]
  ELSE LET field == Head(entries).k
           value == Head(entries).v
           correct == IsCorrectType(field, value)
       IN IF correct = "throw"
          THEN [row |-> row, thrown |-> TRUE]
          ELSE ApplyEntries(IF correct = "true" THEN SetKey(row, field, value) ELSE row,
                            Tail(entries))

\* set(id, values)
Set(id, values) ==
  /\ Exists(storage, id) \/ Len(storage) < MaxRows
  /\ IF Exists(storage, id)
     THEN LET index == FindIndex(storage, id)
              applied == ApplyEntries(storage[index], values)
          IN /\ storage' = [storage EXCEPT ![index] = applied.row]
             /\ last' = Op("set", id, values, applied.thrown)
     ELSE Push("set", id, values)
  /\ prev' = storage
  /\ UNCHANGED <<structure, options, file>>

\* the filter of delete with a strict comparison: row.id !== id
DeleteRowsStrict(rows, id) == SelectSeq(rows, LAMBDA row : Prop(row, "id") # id)

\* this.storage.filter((row) => row.id != id)
DeleteRows(rows, id) == SelectSeq(rows, LAMBDA row : ~LooseEq(Prop(row, "id"), id))

\* delete(id)
Delete(id) ==
  /\ storage' = DeleteRows(storage, id)
  /\ last' = Op("delete", id, <<>>, FALSE)
  /\ prev' = storage
  /\ UNCHANGED <<structure, options, file>>

\* clear() that also writes the file
ClearSaved ==
  /\ storage' = <<>>
  /\ file' = JSONStringify(<<>>)
  /\ last' = Op("clear", Undefined, <<>>, FALSE)
  /\ prev' = storage
  /\ UNCHANGED <<structure, options, each, life, kv>>

\* clear()
Clear ==
  /\ storage' = <<>>
  /\ last' = Op("clear", Undefined, <<>>, FALSE)
  /\ prev' = storage
  /\ UNCHANGED <<structure, options, file, each, life, kv>>

\* save()
Save ==
  /\ file' = JSONStringify(storage)
  /\ last' = Op("save", Undefined, <<>>, FALSE)
  /\ prev' = storage
  /\ UNCHANGED <<structure, options, storage, each, life, kv>>

\* new Storage(directory, structure, options) on the same path and schema
Construct ==
  /\ file' = CreateFile(file)
  /\ storage' = Structure(JSONParse(CreateFile(file)))
  /\ last' = Op("construct", Undefined, <<>>, FALSE)
  /\ prev' = storage
  /\ UNCHANGED <<structure, options, each, life, kv>>

(***************************************************************************)
(* The record store under its mutation operations.                         *)
(***************************************************************************)
AddAny ==
  \E id \in Ids, values \in ValuesArgs : Add(id, values) /\ UNCHANGED <<each, life, kv>>

SetAny ==
  \E id \in Ids, values \in ValuesArgs : Set(id, values) /\ UNCHANGED <<each, life, kv>>

DeleteAny == \E id \in Ids : Delete(id) /\ UNCHANGED <<each, life, kv>>

Next == AddAny \/ SetAny \/ DeleteAny \/ Clear

Spec == Init /\ [][Next]_vars

(***************************************************************************)
(* The record store with its backing file: the mutation operations on a    *)
(* smaller set of inputs, save() and a new construction on the same path.  *)
(***************************************************************************)
PersistIds == {Num(1), Str("1"), Undefined}

PersistValues == { <<>>, << Entry("a", Num(7)) >> }

AddSome ==
  \E id \in PersistIds, values \in PersistValues :
    Add(id, values) /\ UNCHANGED <<each, life, kv>>

SetSome ==
  \E id \in PersistIds, values \in PersistValues :
    Set(id, values) /\ UNCHANGED <<each, life, kv>>

DeleteSome == \E id \in PersistIds : Delete(id) /\ UNCHANGED <<each, life, kv>>

NextPersist == AddSome \/ SetSome \/ DeleteSome \/ Clear \/ Save \/ Construct

SpecPersist == Init /\ [][NextPersist]_vars

(***************************************************************************)
(* forEach(callback).  Array.prototype.forEach walks the array that        *)
(* this.storage names when forEach is called, up to the length the array   *)
(* has at that moment.  each.array is that array, each.tags the position   *)
(* each of its elements had at the start (0: pushed later), each.link the  *)
(* position in this.storage of the same row object (0: no longer there),   *)
(* each.aliased whether this.storage still names the walked array.         *)
(***************************************************************************)
\* The values the callback passes to the set closure.
EachValues ==
  { << Entry("a", Num(7)) >>,
    << Entry("id", Num(2)) >>,
    << Entry("zzz", Num(3)) >> }

Identity(n) == [j \in 1..n |-> j]

\* the row the callback is invoked with
EachRow == each.array[each.k]

\* callback({...}) for the element at position k, when the array has one
Invoke(e, k) ==
  IF k > e.len \/ k > Len(e.array)
  THEN [e EXCEPT !.pc = "done", !.k = k]
  ELSE [e EXCEPT !.pc = "callback", !.k = k, !.calls = 0,
                 !.visited = Append(@, e.tags[k])]

\* the walked array after this.storage went from rows to after by a set:
\* a push lands in the walked array while this.storage names it, and a row
\* changed in place is the same object in both
AfterSet(e, rows, after) ==
  IF e.aliased
  THEN [e EXCEPT !.array = after,
                 !.link = Identity(Len(after)),
                 !.tags = IF Len(after) > Len(rows) THEN Append(@, 0) ELSE @]
  ELSE [e EXCEPT !.array = [j \in 1..Len(e.array) |->
                              IF e.link[j] # 0 THEN after[e.link[j]] ELSE e.array[j]]]

\* the walked array after delete(id) gave this.storage a new, filtered array
AfterDelete(e, rows, id) ==
  [e EXCEPT !.aliased = FALSE,
            !.link = [j \in 1..Len(e.link) |->
                        IF e.link[j] # 0 /\ ~LooseEq(Prop(rows[e.link[j]], "id"), id)
                        THEN Cardinality({i \in 1..e.link[j] :
                                            ~LooseEq(Prop(rows[i], "id"), id)})
                        ELSE 0]]

\* forEach(callback): the walk starts
ForEachStart ==
  /\ each.pc = "idle"
  /\ each' = Invoke([pc |-> "idle", array |-> storage, tags |-> Identity(Len(storage)),
                     link |-> Identity(Len(storage)), aliased |-> TRUE,
                     len |-> Len(storage), k |-> 0, calls |-> 0, visited |-> <<>>], 1)
  /\ last' = Op("forEach", Undefined, <<>>, FALSE)
  /\ prev' = storage
  /\ UNCHANGED <<structure, options, file, storage, life, kv>>

\* the callback calls set(values) of its argument: this.set(row.id, values);
\* a TypeError of set leaves the callback and forEach
CallSet ==
  /\ each.pc = "callback"
  /\ each.calls < MaxCalls
  /\ \E values \in EachValues :
       /\ Set(Prop(EachRow, "id"), values)
       /\ each' = [AfterSet(each, storage, storage') EXCEPT
                     !.calls = @ + 1,
                     !.pc = IF last'.thrown THEN "aborted" ELSE @]
  /\ UNCHANGED <<life, kv>>

\* the callback calls delete() of its argument: this.delete(row.id)
CallDelete ==
  /\ each.pc = "callback"
  /\ each.calls < MaxCalls
  /\ Delete(Prop(EachRow, "id"))
  /\ each' = [AfterDelete(each, storage, Prop(EachRow, "id")) EXCEPT !.calls = @ + 1]
  /\ UNCHANGED <<life, kv>>

\* the callback returns: the walk goes on to the next position
Return ==
  /\ each.pc = "callback"
  /\ each' = Invoke(each, each.k + 1)
  /\ UNCHANGED <<structure, options, file, storage, last, prev, life, kv>>

\* the store is filled before the walk
Fill == each.pc = "idle" /\ AddSome

NextEach == Fill \/ ForEachStart \/ CallSet \/ CallDelete \/ Return

SpecEach == Init /\ [][NextEach]_vars

(***************************************************************************)
(* The queries: get, getOne, getFew, find and getAll.                      *)
(***************************************************************************)
\* if (x): whether a value is truthy; anything that is not a primitive is
Truthy(x) ==
  CASE x.t \in {"undefined", "null"} -> FALSE
    [] x.t = "number" -> x.s # "NaN" /\ x.n # 0
    [] x.t = "string" -> x.s # ""
    [] x.t = "boolean" -> x.n = 1
    [] OTHER -> TRUE

\* a sort argument { field, order }, either of them Undefined when omitted
SortBy(field, order) == [t |-> "object", field |-> field, order |-> order]

\* sort = {}: the default of the sort parameter applies when it is omitted
SortOrDefault(sort) == IF sort.t = "undefined" THEN SortBy(Undefined, Undefined) ELSE sort

\* field = 'id': the default of the field parameter of #sort
FieldOrDefault(field) == IF field.t = "undefined" THEN "id" ELSE field.s

\* order = 'ascending': the default of the order parameter of #sort
OrderOrDefault(order) == IF order.t = "undefined" THEN Str("ascending") ELSE order

\* x - y
Minus(x, y) ==
  LET a == ToNumber(x)
      b == ToNumber(y)
  IN IF a.s = "NaN" \/ b.s = "NaN" THEN NaN ELSE Num(a.n - b.n)

\* the comparator of #sort with its branches exchanged
CompareExchanged(a, b, field, order) ==
  IF LooseEq(order, Str("ascending"))
  THEN Minus(Prop(b, field), Prop(a, field))
  ELSE Minus(Prop(a, field), Prop(b, field))

\* (a, b) => order == 'ascending' ? a[field] - b[field] : b[field] - a[field]
Compare(a, b, field, order) ==
  IF LooseEq(order, Str("ascending"))
  THEN Minus(Prop(a, field), Prop(b, field))
  ELSE Minus(Prop(b, field), Prop(a, field))

\* the rearrangements of the positions 1..n
Arrangements(n) ==
  {p \in [1..n -> 1..n] : \A i, j \in 1..n : p[i] = p[j] => i = j}

\* #sort(array, field, order): what array.sort can leave in the array. With
\* a comparator that answers a number for every pair, any arrangement the
\* comparator finds in order (engines before ES2019 need not keep the order
\* of equal elements); with one that answers NaN for some pair the
\* comparator is not consistent and the arrangement is the engine's choice.
Sort(array, field, order) ==
  LET n == Len(array)
      f == FieldOrDefault(field)
      o == OrderOrDefault(order)
      consistent == \A i, j \in 1..n : Compare(array[i], array[j], f, o).s # "NaN"
  IN { [i \in 1..n |-> array[p[i]]] :
         p \in {q \in Arrangements(n) :
                  consistent =>
                    \A i, j \in 1..n :
                      i < j => Compare(array[q[i]], array[q[j]], f, o).n <= 0} }

\* array.filter((row) => row[field] == value)
Filter(value, field, array) ==
  SelectSeq(array, LAMBDA row : LooseEq(Prop(row, field), value))

\* getOne(value, field, array): array.find((row) => row[field] == value)
GetOne(value, field, array) ==
  LET hits == {i \in 1..Len(array) : LooseEq(Prop(array[i], field), value)}
  IN IF hits = {} THEN Undefined ELSE array[CHOOSE i \in hits : \A j \in hits : i <= j]

\* getFew(value, field, sort, array): the results it can return
GetFew(value, field, sort, array) ==
  LET given == SortOrDefault(sort)
      result == Filter(value, field, array)
  IN IF Truthy(given) THEN Sort(result, given.field, given.order) ELSE {result}

\* the closures of a find result search this.storage instead of the result
FoundArrayStore(result, rows) == rows

\* the array the find, getOne and getFew closures of a find result pass on
FoundArray(result, rows) == result

\* find(value, field, array).result
Find(value, field, array) == Filter(value, field, array)

\* The arguments of the queries explored.
QueryValues == {Num(1), Num(7)}

QueryFields == {"id", "a"}

SortArgs ==
  { Undefined,
    SortBy(Undefined, Str("descending")),
    SortBy(Str("a"), Str("ascending")) }

\* what the last query was called with and what it returned
Query(name, value, field, value2, field2, sort, result) ==
  [op |-> name, id |-> Undefined, values |-> <<>>, thrown |-> FALSE,
   value |-> value, field |-> field, value2 |-> value2, field2 |-> field2,
   sort |-> sort, result |-> result]

\* get(id)
GetRow(id) ==
  /\ last' = Query("get", id, "id", Undefined, "", Undefined, Get(storage, id))
  /\ prev' = storage
  /\ UNCHANGED <<structure, options, file, storage, each, life, kv>>

\* getOne(value, field)
GetOneRow(value, field) ==
  /\ last' = Query("getOne", value, field, Undefined, "", Undefined,
                   GetOne(value, field, storage))
  /\ prev' = storage
  /\ UNCHANGED <<structure, options, file, storage, each, life, kv>>

\* getFew(value, field, sort)
GetFewRows(value, field, sort) ==
  /\ \E result \in GetFew(value, field, sort, storage) :
       last' = Query("getFew", value, field, Undefined, "", sort, result)
  /\ prev' = storage
  /\ UNCHANGED <<structure, options, file, storage, each, life, kv>>

\* find(value, field).find(value2, field2).result
FindFind(value, field, value2, field2) ==
  /\ LET result == Find(value, field, storage)
     IN last' = Query("find.find", value, field, value2, field2, Undefined,
                      Find(value2, field2, FoundArray(result, storage)))
  /\ prev' = storage
  /\ UNCHANGED <<structure, options, file, storage, each, life, kv>>

\* find(value, field).getOne(value2, field2)
FindGetOne(value, field, value2, field2) ==
  /\ LET result == Find(value, field, storage)
     IN last' = Query("find.getOne", value, field, value2, field2, Undefined,
                      GetOne(value2, field2, FoundArray(result, storage)))
  /\ prev' = storage
  /\ UNCHANGED <<structure, options, file, storage, each, life, kv>>

\* find(value, field).getFew(value2, field2, sort)
FindGetFew(value, field, value2, field2, sort) ==
  /\ LET result == Find(value, field, storage)
     IN \E few \in GetFew(value2, field2, sort, FoundArray(result, storage)) :
          last' = Query("find.getFew", value, field, value2, field2, sort, few)
  /\ prev' = storage
  /\ UNCHANGED <<structure, options, file, storage, each, life, kv>>

\* getAll(sort) that sorts a copy: [...this.storage]
GetAllCopy(sort) ==
  /\ LET given == SortOrDefault(sort)
     IN \E sorted \in Sort(storage, given.field, given.order) :
          last' = Query("getAll", Undefined, "", Undefined, "", sort, sorted)
  /\ prev' = storage
  /\ UNCHANGED <<structure, options, file, storage, each, life, kv>>

\* getAll(sort): this.storage itself is sorted and returned
GetAll(sort) ==
  /\ LET given == SortOrDefault(sort)
     IN \E sorted \in Sort(storage, given.field, given.order) :
          /\ storage' = sorted
          /\ last' = Query("getAll", Undefined, "", Undefined, "", sort, sorted)
  /\ prev' = storage
  /\ UNCHANGED <<structure, options, file, each, life, kv>>

\* The store under its queries: it is filled by add and set, then asked.
QueryIds == {Num(1), Num(2), Undefined}

QueryAdd ==
  \E id \in QueryIds, values \in PersistValues :
    Add(id, values) /\ UNCHANGED <<each, life, kv>>

QuerySet ==
  \E id \in QueryIds, values \in PersistValues :
    Set(id, values) /\ UNCHANGED <<each, life, kv>>

InitQuery == Init /\ structure = SchemaAB /\ options.checkType = Undefined

NextQuery ==
  \/ QueryAdd
  \/ QuerySet
  \/ \E id \in QueryValues : GetRow(id)
  \/ \E value \in QueryValues, field \in QueryFields : GetOneRow(value, field)
  \/ \E value \in QueryValues, field \in QueryFields, sort \in SortArgs :
       GetFewRows(value, field, sort)
  \/ \E value \in QueryValues, field \in QueryFields,
        value2 \in QueryValues, field2 \in QueryFields :
       \/ FindFind(value, field, value2, field2)
       \/ FindGetOne(value, field, value2, field2)
       \/ \E sort \in SortArgs : FindGetFew(value, field, value2, field2, sort)
  \/ \E sort \in SortArgs : GetAll(sort)

SpecQuery == InitQuery /\ [][NextQuery]_vars

(***************************************************************************)
(* The process: the autosave timers armed by #saveAuto, the exit and       *)
(* SIGINT listeners registered by #saveOnExit, and how the process ends.   *)
(* life.timers and life.listeners are in registration order.  Two stores   *)
(* live in the process: "this", the store of the variables above, and      *)
(* "peer", a second store on another path that is only saved.  life.was    *)
(* holds both files as they were before the last timer or listener ran.    *)
(***************************************************************************)
\* 60 * 1000: the interval, in seconds, when save.auto is not a number
DefaultAuto == 60

\* save.auto * 1000: milliseconds in a second
Millis == 1000

\* options = { save: { auto, onExit } }; an omitted save reads like a save
\* with both parts omitted (save?.auto, save?.onExit)
SaveOptions(auto, onExit) ==
  [checkType |-> Undefined, save |-> [auto |-> auto, onExit |-> onExit]]

\* #saveAuto() that also returns when save.auto is omitted
SaveAutoIfGiven(s, o, timers) ==
  IF ~Truthy(o.save.auto)
  THEN timers
  ELSE Append(timers, [store |-> s, ms |-> o.save.auto.n * Millis])

\* #saveAuto() of store s: the timers afterwards
SaveAuto(s, o, timers) ==
  IF LooseEq(o.save.auto, Num(0))
  THEN timers
  ELSE IF TypeOf(o.save.auto) = "number"
  THEN Append(timers, [store |-> s, ms |-> o.save.auto.n * Millis])
  ELSE Append(timers, [store |-> s, ms |-> DefaultAuto * Millis])

\* the listeners #saveOnExit registers
Hooks(s) == << [event |-> "exit", store |-> s], [event |-> "SIGINT", store |-> s] >>

\* #saveOnExit() without its first test
SaveOnExitAlways(s, o, listeners) == listeners \o Hooks(s)

\* #saveOnExit() of store s: the listeners afterwards
SaveOnExit(s, o, listeners) ==
  IF LooseEq(o.save.onExit, Bool(FALSE))
  THEN listeners
  ELSE IF LooseEq(o.save.onExit, Bool(TRUE)) \/ LooseEq(o.save.onExit, Undefined)
  THEN listeners \o Hooks(s)
  ELSE listeners

\* this.#saveAuto(); this.#saveOnExit(); in the constructor of store s
Register(s, o, l) ==
  [l EXCEPT !.timers = SaveAuto(s, o, @), !.listeners = SaveOnExit(s, o, @)]

\* a file that is not JSON: JSON.parse throws a SyntaxError on it
MalformedFile == [kind |-> "malformed", rows |-> <<>>]

\* the file after a write of the value undefined by a build that writes it
\* as text
UndefinedFile == [kind |-> "undefined", rows |-> <<>>]

\* the in-memory sequence of the peer: one record added since it was loaded
PeerRows == << [id |-> Num(5), a |-> Null, b |-> Num(0)] >>

NoPeer == [made |-> FALSE, options |-> SaveOptions(Num(0), Bool(FALSE)),
           storage |-> <<>>, file |-> AbsentFile]

Peer(o) == [made |-> TRUE, options |-> o, storage |-> PeerRows,
            file |-> JSONStringify(<<>>)]

\* the process before any store is constructed in it
NewProcess(legacy) ==
  [proc |-> "running", code |-> "", timers |-> <<>>, listeners |-> <<>>,
   made |-> TRUE, legacy |-> legacy, peer |-> NoPeer,
   was |-> [this |-> AbsentFile, peer |-> AbsentFile]]

Running == life.proc = "running"

\* both files
Disk == [this |-> file, peer |-> life.peer.file]

\* save() of store s with the files d: the files afterwards, and whether it
\* threw.  A store whose construction failed has no this.storage:
\* JSON.stringify answers undefined, which fs.writeFileSync writes as text
\* or rejects with a TypeError, depending on the build.
SaveOn(d, s) ==
  IF s = "peer"
  THEN [disk |-> [d EXCEPT !.peer = JSONStringify(life.peer.storage)], thrown |-> FALSE]
  ELSE IF life.made
  THEN [disk |-> [d EXCEPT !.this = JSONStringify(storage)], thrown |-> FALSE]
  ELSE IF life.legacy
  THEN [disk |-> [d EXCEPT !.this = UndefinedFile], thrown |-> FALSE]
  ELSE [disk |-> d, thrown |-> TRUE]

\* process.emit(event): the listeners run in registration order until one
\* throws
RECURSIVE Emit(_, _)
Emit(d, stores) ==
  IF stores = <<>>
  THEN [disk |-> d, thrown |-> FALSE]
  ELSE LET saved == SaveOn(d, Head(stores))
       IN IF saved.thrown THEN saved ELSE Emit(saved.disk, Tail(stores))

\* the stores listening to event, in registration order
Listening(event) ==
  LET heard == SelectSeq(life.listeners, LAMBDA l : l.event = event)
  IN [i \in 1..Len(heard) |-> heard[i].store]

\* the process ends
End(d, proc, code, name) ==
  /\ file' = d.this
  /\ life' = [life EXCEPT !.proc = proc, !.code = code, !.peer.file = d.peer,
                          !.was = Disk]
  /\ last' = Op(name, Undefined, <<>>, FALSE)
  /\ prev' = storage
  /\ UNCHANGED <<structure, options, storage, each, kv>>

\* an uncaught exception: 'exit' is emitted with code 1 and what its
\* listeners throw is dropped
Crash(d, name) == End(Emit(d, Listening("exit")).disk, "crashed", "1", name)

\* an autosave timer fires: () => { this.save(); }
TimerFire ==
  /\ Running
  /\ \E i \in 1..Len(life.timers) :
       LET saved == SaveOn(Disk, life.timers[i].store)
       IN IF saved.thrown
          THEN Crash(saved.disk, "timer")
          ELSE /\ file' = saved.disk.this
               /\ life' = [life EXCEPT !.peer.file = saved.disk.peer, !.was = Disk]
               /\ last' = Op("timer", Str(life.timers[i].store), <<>>, FALSE)
               /\ prev' = storage
               /\ UNCHANGED <<structure, options, storage, each, kv>>

\* SIGINT arrives.  Without a listener the signal kills the process. With
\* listeners the first one saves its store and calls process.exit(0), which
\* emits 'exit' and does not return.
Sigint ==
  /\ Running
  /\ LET heard == Listening("SIGINT")
     IN IF heard = <<>>
        THEN End(Disk, "killed", "SIGINT", "SIGINT")
        ELSE LET saved == SaveOn(Disk, Head(heard))
                 left == Emit(saved.disk, Listening("exit"))
             IN IF saved.thrown
                THEN Crash(saved.disk, "SIGINT")
                ELSE IF left.thrown
                THEN End(left.disk, "crashed", "1", "SIGINT")
                ELSE End(left.disk, "exited", "0", "SIGINT")

\* the program calls process.exit(code), or runs out of work (code 0)
ProcessExit ==
  /\ Running
  /\ \E code \in {"0", "1"} :
       LET left == Emit(Disk, Listening("exit"))
       IN IF left.thrown
          THEN End(left.disk, "crashed", "1", "exit")
          ELSE End(left.disk, "exited", code, "exit")

(***************************************************************************)
(* Two stores in one process, their timers and their listeners.            *)
(***************************************************************************)
\* The save options explored: each of auto omitted, 0 and 2 and each of
\* onExit omitted, true and false.
LifeOptions ==
  { SaveOptions(Undefined, Undefined),
    SaveOptions(Num(0), Bool(FALSE)),
    SaveOptions(Num(0), Undefined),
    SaveOptions(Num(2), Bool(TRUE)) }

PeerOptions == { SaveOptions(Num(0), Undefined), SaveOptions(Num(0), Bool(FALSE)) }

\* new Storage(...) twice in a new process, in either order
InitLife ==
  \E o \in LifeOptions, p \in PeerOptions, first \in BOOLEAN :
    /\ structure = SchemaAB
    /\ options = o
    /\ file = CreateFile(AbsentFile)
    /\ storage = Structure(JSONParse(CreateFile(AbsentFile)))
    /\ last = Op("construct", Undefined, <<>>, FALSE)
    /\ prev = <<>>
    /\ each = NoEach
    /\ kv = NoKv
    /\ life = LET process == [NewProcess(FALSE) EXCEPT !.peer = Peer(p)]
              IN IF first
                 THEN Register("peer", p, Register("this", o, process))
                 ELSE Register("this", o, Register("peer", p, process))

LifeAdd == Running /\ Add(Num(1), <<>>) /\ UNCHANGED <<each, life, kv>>

LifeClear == Running /\ Clear

LifeSave == Running /\ Save

NextLife == LifeAdd \/ LifeClear \/ LifeSave \/ TimerFire \/ Sigint \/ ProcessExit

SpecLife == InitLife /\ [][NextLife]_vars

(***************************************************************************)
(* One store with its file, under every public operation, its timer and    *)
(* its listeners.  Between two calls of the closures of a forEach nothing  *)
(* else runs: the callback is synchronous.                                 *)
(***************************************************************************)
FrameOptions == { SaveOptions(Undefined, Undefined), SaveOptions(Num(0), Bool(FALSE)) }

FrameIds == {Num(2)}

\* new Storage(...) in a new process
InitFrame ==
  \E o \in FrameOptions, f \in InitFiles :
    /\ structure = SchemaAB
    /\ options = o
    /\ file = CreateFile(f)
    /\ storage = Structure(JSONParse(CreateFile(f)))
    /\ last = Op("construct", Undefined, <<>>, FALSE)
    /\ prev = <<>>
    /\ each = NoEach
    /\ kv = NoKv
    /\ life = Register("this", o, NewProcess(FALSE))

\* the program is at its top level and has not called forEach: a run makes
\* one forEach, as its last call
TopLevel == Running /\ each.pc = "idle"

FrameAdd == TopLevel /\ \E id \in FrameIds : Add(id, <<>>) /\ UNCHANGED <<each, life, kv>>

FrameSet ==
  TopLevel /\ \E id \in FrameIds : Set(id, << Entry("a", Num(7)) >>) /\ UNCHANGED <<each, life, kv>>

FrameDelete == TopLevel /\ \E id \in FrameIds : Delete(id) /\ UNCHANGED <<each, life, kv>>

FrameClear == TopLevel /\ Clear

FrameSave == TopLevel /\ Save

FrameGet == TopLevel /\ GetRow(Num(1))

FrameGetOne == TopLevel /\ GetOneRow(Num(7), "a")

FrameGetFew == TopLevel /\ GetFewRows(Num(7), "a", Undefined)

FrameFind == TopLevel /\ FindFind(Num(7), "a", Num(1), "id")

FrameGetAll == TopLevel /\ GetAll(SortBy(Undefined, Str("descending")))

FrameForEach == TopLevel /\ ForEachStart

NextFrame ==
  \/ FrameAdd
  \/ FrameSet
  \/ FrameDelete
  \/ FrameClear
  \/ FrameSave
  \/ FrameGet
  \/ FrameGetOne
  \/ FrameGetFew
  \/ FrameFind
  \/ FrameGetAll
  \/ FrameForEach
  \/ CallSet
  \/ CallDelete
  \/ Return
  \/ TopLevel /\ TimerFire
  \/ TopLevel /\ Sigint
  \/ TopLevel /\ ProcessExit

SpecFrame == InitFrame /\ [][NextFrame]_vars

(***************************************************************************)
(* class ObjectStorage: one mapping from keys to values.  kv.schema tells  *)
(* whether options.structure was given (this.structure is then the value  *)
(* of the variable structure), kv.storage is this.storage; prev holds the  *)
(* mapping before the last operation.                                      *)
(***************************************************************************)
\* what a property inherited from Object.prototype holds: a function
Inherited(key) == [t |-> "function", n |-> 0, s |-> key]

\* this.storage[key] of get: an own property, else an inherited one
GetKey(object, key) ==
  IF key \in DOMAIN object
  THEN object[key]
  ELSE IF key \in ObjectPrototypeKeys THEN Inherited(key) ELSE Undefined

\* ObjectStorage.#isField(key): key in this.structure
ObjectIsField(key) == key \in FieldNames \cup ObjectPrototypeKeys

\* ObjectStorage.#isCorrectType(key, data): "true", "false", or "throw" when
\* this.structure[key] is undefined and its type is destructured
ObjectIsCorrectType(key, data) ==
  IF LooseEq(options.checkType, Bool(FALSE))
  THEN IF ObjectIsField(key) THEN "true" ELSE "false"
  ELSE IF ~ObjectIsField(key)
  THEN "throw"
  ELSE IF LooseEq(Str(TypeOf(data)), DeclaredType(key))
  THEN "true"
  ELSE "false"

\* ObjectStorage.#structure(): with a schema, the loaded mapping is rebuilt
\* from the schema's fields
ObjectStructure(schema, loaded) ==
  IF schema THEN StructureReduce(structure, loaded, EmptyObject) ELSE loaded

\* The mappings found in the file at construction: {} and {"a": 5}.
KvFiles == {EmptyObject, [a |-> Num(5)]}

KvKeys == {"a", "zzz", "constructor"}

KvValues == {Num(7), Str("bad")}

\* new ObjectStorage(directory, options)
InitKv ==
  \E schema \in BOOLEAN, o \in OptionSets, loaded \in KvFiles :
    /\ structure = IF schema THEN SchemaAB ELSE <<>>
    /\ options = o
    /\ file = AbsentFile
    /\ storage = <<>>
    /\ last = Op("construct", Undefined, <<>>, FALSE)
    /\ prev = EmptyObject
    /\ each = NoEach
    /\ life = NoLife
    /\ kv = [made |-> TRUE, schema |-> schema,
             storage |-> ObjectStructure(schema, loaded)]

\* ObjectStorage.set(key, value)
KvSet(key, value) ==
  /\ LET correct == IF kv.schema THEN ObjectIsCorrectType(key, value) ELSE "true"
     IN /\ kv' = IF correct = "true"
                 THEN [kv EXCEPT !.storage = SetKey(@, key, value)]
                 ELSE kv
        /\ last' = Op("set", Str(key), << Entry(key, value) >>, correct = "throw")
  /\ prev' = kv.storage
  /\ UNCHANGED <<structure, options, file, storage, each, life>>

\* ObjectStorage.get(key)
KvGet(key) ==
  /\ last' = Op("get", Str(key), << Entry(key, GetKey(kv.storage, key)) >>, FALSE)
  /\ prev' = kv.storage
  /\ UNCHANGED <<structure, options, file, storage, each, life, kv>>

NextKv ==
  \/ \E key \in KvKeys, value \in KvValues : KvSet(key, value)
  \/ \E key \in KvKeys : KvGet(key)

SpecKv == InitKv /\ [][NextKv]_vars

(***************************************************************************)
(* A construction that fails: the file is not JSON, JSON.parse throws in   *)
(* the constructor and the program catches the error.  The timers and the  *)
(* listeners registered before the parse stay with the process.  A second  *)
(* store may be constructed afterwards on another path.                    *)
(***************************************************************************)
FailOptions ==
  { SaveOptions(auto, onExit) :
      auto \in {Undefined, Num(0), Num(2)},
      onExit \in {Undefined, Bool(TRUE), Bool(FALSE)} }

\* new Storage(...) throws a SyntaxError after #createFile, #saveAuto and
\* #saveOnExit have run; this.storage is never assigned
InitFail ==
  \E o \in FailOptions, legacy \in BOOLEAN :
    /\ structure = SchemaAB
    /\ options = o
    /\ file = CreateFile(MalformedFile)
    /\ storage = <<>>
    /\ last = Op("construct", Undefined, <<>>, TRUE)
    /\ prev = <<>>
    /\ each = NoEach
    /\ kv = NoKv
    /\ life = [Register("this", o, NewProcess(legacy)) EXCEPT !.made = FALSE]

\* new Storage(...) on another path, which succeeds
ConstructPeer ==
  /\ Running
  /\ ~life.peer.made
  /\ \E p \in PeerOptions :
       life' = Register("peer", p, [life EXCEPT !.peer = Peer(p)])
  /\ last' = Op("construct", Str("peer"), <<>>, FALSE)
  /\ UNCHANGED <<structure, options, file, storage, prev, each, kv>>

NextFail == ConstructPeer \/ TimerFire \/ Sigint \/ ProcessExit

SpecFail == InitFail /\ [][NextFail]_vars

(***************************************************************************)
(* One store with its autosave timer armed, in a process that keeps        *)
(* running.  setInterval repeats for as long as the process lives and its  *)
(* callback runs whenever the program has returned to the event loop;      *)
(* every public operation is synchronous and returns, so a timer that is   *)
(* due is never kept waiting for ever: the firing is weakly fair.          *)
(***************************************************************************)
AutoOptions == { SaveOptions(Undefined, Bool(FALSE)), SaveOptions(Num(2), Bool(FALSE)) }

\* The values passed to set: one field, and three entries of which the
\* second names no field of the schema.
AutoValues ==
  { << Entry("a", Num(7)) >>,
    << Entry("b", Num(1)), Entry("zzz", Num(3)), Entry("a", Num(7)) >> }

\* new Storage(...) in a new process
InitAuto ==
  \E o \in AutoOptions, f \in InitFiles :
    /\ structure = SchemaAB
    /\ options = o
    /\ file = CreateFile(f)
    /\ storage = Structure(JSONParse(CreateFile(f)))
    /\ last = Op("construct", Undefined, <<>>, FALSE)
    /\ prev = <<>>
    /\ each = NoEach
    /\ kv = NoKv
    /\ life = Register("this", o, NewProcess(FALSE))

AutoAdd == Add(Num(2), <<>>) /\ UNCHANGED <<each, life, kv>>

AutoSet == \E values \in AutoValues : Set(Num(1), values) /\ UNCHANGED <<each, life, kv>>

AutoDelete == Delete(Num(2)) /\ UNCHANGED <<each, life, kv>>

NextAuto == AutoAdd \/ AutoSet \/ AutoDelete \/ Clear \/ TimerFire

SpecAuto == InitAuto /\ [][NextAuto]_vars /\ WF_vars(TimerFire)

(***************************************************************************)
(* What the claims speak of.                                               *)
(***************************************************************************)
\* options.checkType is not false
CheckingEnabled == ~LooseEq(options.checkType, Bool(FALSE))

\* the last operation was an add or a set that found no record with its id
Created == last.op \in {"add", "set"} /\ ~Exists(prev, last.id)

\* the last operation was a set that found a record with its id
Updated == last.op = "set" /\ Exists(prev, last.id)

\* values has a property named field
Supplied(values, field) == \E i \in 1..Len(values) : values[i].k = field

\* the default the schema declares for field, or null when it declares none
DefaultOrNull(field) ==
  IF Descriptor(field).default = Undefined THEN Null ELSE Descriptor(field).default

\* the name the schema gives field in a record: its rename when it has one
OutputName(field) ==
  IF Descriptor(field).rename # "" THEN Descriptor(field).rename ELSE field

\* the properties of values that pass the type-correctness check
PassingKeys(values) ==
  {values[i].k : i \in {j \in 1..Len(values) :
                          IsCorrectType(values[j].k, values[j].v) = "true"}}

\* the positions of rows whose id is not loosely equal to id
KeptBy(rows, id) == {i \in 1..Len(rows) : ~LooseEq(Prop(rows[i], "id"), id)}

(***************************************************************************)
(* C1: no two records of the in-memory sequence have loosely equal ids.    *)
(***************************************************************************)
C1_UniqueIds ==
  \A i, j \in 1..Len(storage) :
    i # j => ~LooseEq(Prop(storage[i], "id"), Prop(storage[j], "id"))

(***************************************************************************)
(* C2: a set on an existing id changes only the fields that values holds   *)
(* and that pass the type-correctness check: every other field of the      *)
(* record, the record's id, its position and every other record stay.      *)
(***************************************************************************)
\* the part of C2 about the fields, the position and the other records
SetExistingFrame ==
  Updated =>
    LET index == FindIndex(prev, last.id) IN
      /\ Len(storage) = Len(prev)
      /\ \A i \in 1..Len(prev) : i # index => storage[i] = prev[i]
      /\ DOMAIN storage[index] \subseteq DOMAIN prev[index] \cup PassingKeys(last.values)
      /\ \A k \in DOMAIN prev[index] :
           k \notin PassingKeys(last.values) =>
             k \in DOMAIN storage[index] /\ storage[index][k] = prev[index][k]

C2_SetExistingChangesOnlyGivenFields ==
  /\ SetExistingFrame
  /\ Updated =>
       LET index == FindIndex(prev, last.id) IN
         Prop(storage[index], "id") = Prop(prev[index], "id")

(***************************************************************************)
(* C3: set, add, delete and clear never raise; a set on an existing id     *)
(* ignores a property of values that is not a field of the schema.         *)
(***************************************************************************)
C3_MutationsNeverRaise ==
  last.op \in {"set", "add", "delete", "clear"} =>
    /\ ~last.thrown
    /\ Updated =>
         LET index == FindIndex(prev, last.id) IN
           \A i \in 1..Len(last.values) :
             LET field == last.values[i].k IN
               field \notin FieldNames =>
                 /\ field \in DOMAIN storage[index] <=> field \in DOMAIN prev[index]
                 /\ Prop(storage[index], field) = Prop(prev[index], field)

(***************************************************************************)
(* C4: in a record that add or set creates, every schema field that values *)
(* does not supply holds the declared default, or null without one.        *)
(***************************************************************************)
C4_NewRecordDefaults ==
  (Created /\ ~last.thrown) =>
    /\ Len(storage) = Len(prev) + 1
    /\ \A field \in FieldNames :
         ~Supplied(last.values, field) =>
           Prop(storage[Len(storage)], field) = DefaultOrNull(field)

(***************************************************************************)
(* C5: with type-checking enabled, an add or a set that finds no record    *)
(* with its id appends a record without raising, and a schema field that   *)
(* values supplies with a value of another type than the declared one      *)
(* holds the declared default, or null without one.                        *)
(***************************************************************************)
C5_TypeMismatchFallback ==
  (Created /\ CheckingEnabled) =>
    /\ ~last.thrown
    /\ Len(storage) = Len(prev) + 1
    /\ \A i \in 1..Len(prev) : storage[i] = prev[i]
    /\ \A i \in 1..Len(last.values) :
         LET field == last.values[i].k IN
           (field \in FieldNames /\ TypeOf(last.values[i].v) # Descriptor(field).type) =>
             Prop(storage[Len(storage)], field) = DefaultOrNull(field)

\* an add created a record whose mistyped field fell back to a declared default
C5_Witness ==
  /\ last.op = "add"
  /\ Created
  /\ CheckingEnabled
  /\ Len(storage) = Len(prev) + 1
  /\ \E i \in 1..Len(last.values) :
       LET field == last.values[i].k IN
         /\ field \in FieldNames
         /\ TypeOf(last.values[i].v) # Descriptor(field).type
         /\ Descriptor(field).default # Undefined
         /\ storage[Len(storage)][field] = Descriptor(field).default

(***************************************************************************)
(* C6: an add whose id is loosely equal to the id of a record leaves the   *)
(* in-memory sequence as it was, whatever values holds.                    *)
(***************************************************************************)
C6_AddExistingIsNoOp ==
  (last.op = "add" /\ Exists(prev, last.id)) => (storage = prev /\ ~last.thrown)

\* add("1", values) with values not empty, on a store holding a record of id 1
C6_Witness ==
  /\ last.op = "add"
  /\ last.id = Str("1")
  /\ last.values # <<>>
  /\ \E i \in 1..Len(prev) : Prop(prev[i], "id") = Num(1)
  /\ storage = prev

(***************************************************************************)
(* C7: after delete(id), get(id) finds nothing; the records whose id is    *)
(* not loosely equal to id are kept, unchanged and in their order, and     *)
(* nothing else is; a delete that matches no record changes nothing.       *)
(***************************************************************************)
C7_DeleteRemovesExactlyTheMatches ==
  last.op = "delete" =>
    LET kept == KeptBy(prev, last.id) IN
      /\ ~last.thrown
      /\ Get(storage, last.id) = Undefined
      /\ Len(storage) = Cardinality(kept)
      /\ \A i \in kept : storage[Cardinality({j \in kept : j <= i})] = prev[i]
      /\ ~Exists(prev, last.id) => storage = prev

\* delete("1") removed the record of id 1 and kept the other record
C7_Witness ==
  /\ last.op = "delete"
  /\ last.id = Str("1")
  /\ Len(prev) = 2
  /\ \E i \in 1..Len(prev) : Prop(prev[i], "id") = Num(1)
  /\ Len(storage) = 1

(***************************************************************************)
(* C8: a construction that reads the file save() wrote for the in-memory   *)
(* sequence yields that sequence again.                                    *)
(***************************************************************************)
C8_SaveThenLoadRoundTrip ==
  (last.op = "construct" /\ file = JSONStringify(prev)) => storage = prev

(***************************************************************************)
(* C9: a construction gives every entry of the file a record with the      *)
(* entry's id that holds, for each schema field, the entry's value when it *)
(* is present and of the declared type (or type-checking is disabled), and *)
(* otherwise the declared default, or null without one.                    *)
(***************************************************************************)
C9_LoadCoercesEntries ==
  last.op = "construct" =>
    /\ Len(storage) = Len(JSONParse(file))
    /\ \A i \in 1..Len(storage) :
         LET entry == JSONParse(file)[i] IN
           /\ Prop(storage[i], "id") = Prop(entry, "id")
           /\ \A field \in FieldNames \ {"id"} :
                Prop(storage[i], OutputName(field)) =
                  IF /\ field \in DOMAIN entry
                     /\ ~CheckingEnabled \/ TypeOf(entry[field]) = Descriptor(field).type
                  THEN entry[field]
                  ELSE DefaultOrNull(field)

(***************************************************************************)
(* C10: every record's keys are id and the schema's fields, each under its *)
(* rename when it has one; with type-checking enabled every field holds a  *)
(* value of the declared type, the declared default, or null.              *)
(***************************************************************************)
C10_RecordShape ==
  \A i \in 1..Len(storage) :
    /\ DOMAIN storage[i] = {"id"} \cup {OutputName(field) : field \in FieldNames}
    /\ CheckingEnabled =>
         \A field \in FieldNames \ {"id"} :
           LET value == Prop(storage[i], OutputName(field)) IN
             \/ TypeOf(value) = Descriptor(field).type
             \/ value = DefaultOrNull(field)
             \/ value = Null

(***************************************************************************)
(* C11: when forEach is over, the callback was invoked exactly once for    *)
(* each record the sequence held when forEach started, in sequence order,  *)
(* whatever the callback did with the set and delete closures; records     *)
(* pushed during the walk were not visited.                                *)
(***************************************************************************)
C11_ForEachVisitsEachOnce ==
  each.pc \in {"done", "aborted"} => each.visited = Identity(each.len)

(***************************************************************************)
(* C15: find(v1, f1).find(v2, f2).result is the store's records, in store  *)
(* order, whose f1 loosely equals v1 and whose f2 loosely equals v2; the   *)
(* getOne and getFew of a find result search the filtered sequence only:   *)
(* getOne answers the first store record that satisfies both conditions,   *)
(* getFew an arrangement of all of them.                                   *)
(***************************************************************************)
\* the store's records that satisfy both conditions of the last query
Both ==
  SelectSeq(storage, LAMBDA row : /\ LooseEq(Prop(row, last.field), last.value)
                                  /\ LooseEq(Prop(row, last.field2), last.value2))

\* b holds the elements of a, each as often, in some order
Rearranged(a, b) ==
  /\ Len(a) = Len(b)
  /\ \E p \in Arrangements(Len(a)) : \A i \in 1..Len(a) : b[i] = a[p[i]]

C15_FindChains ==
  /\ last.op = "find.find" => last.result = Both
  /\ last.op = "find.getOne" =>
       last.result = IF Both = <<>> THEN Undefined ELSE Both[1]
  /\ last.op = "find.getFew" => Rearranged(Both, last.result)

\* a chained find narrowed a non-empty first result: both conditions held
\* for one record and only the first for another
C15_Witness ==
  /\ last.op = "find.find"
  /\ Len(last.result) = 1
  /\ Len(Find(last.value, last.field, storage)) = 2
  /\ Len(Find(last.value2, last.field2, storage)) = 1

(***************************************************************************)
(* C16: when the sort field of every record concerned is numeric, getAll   *)
(* and getFew return the records ordered by sort.field (id when omitted),  *)
(* ascending when sort.order is 'ascending' or omitted and descending      *)
(* otherwise; the result is an arrangement of the whole store for getAll   *)
(* and of the matching records for getFew.                                 *)
(***************************************************************************)
\* the records the last getAll or getFew had to arrange
Concerned ==
  IF last.op = "getAll" THEN prev ELSE Filter(last.value, last.field, storage)

\* the sort key of a record in the last query
SortKey(row) == ToNumber(Prop(row, FieldOrDefault(SortOrDefault(last.sort).field)))

NumericKeys == \A i \in 1..Len(Concerned) : SortKey(Concerned[i]).s # "NaN"

Ascending ==
  LET order == SortOrDefault(last.sort).order
  IN order.t = "undefined" \/ order = Str("ascending")

C16_SortedByField ==
  last.op \in {"getAll", "getFew"} =>
    /\ Rearranged(Concerned, last.result)
    /\ NumericKeys =>
         \A i, j \in 1..Len(last.result) :
           i < j =>
             IF Ascending
             THEN SortKey(last.result[i]).n <= SortKey(last.result[j]).n
             ELSE SortKey(last.result[i]).n >= SortKey(last.result[j]).n

\* getAll rearranged a store that was not in descending id order
C16_Witness ==
  /\ last.op = "getAll"
  /\ NumericKeys
  /\ ~Ascending
  /\ Len(prev) = 2
  /\ last.result # prev
  /\ SortKey(last.result[1]).n > SortKey(last.result[2]).n

(***************************************************************************)
(* C12: when SIGINT has ended the process, the file of every store         *)
(* constructed with save.onExit not false holds that store's in-memory     *)
(* sequence, and the process ended by the listener's process.exit with     *)
(* status 0; the file of a store constructed with save.onExit false is as  *)
(* it was before the signal, after SIGINT and after an exit alike.         *)
(***************************************************************************)
\* the store was constructed with the shutdown hooks enabled
HooksEnabled(o) == o.save.onExit # Bool(FALSE)

Intervals ==
  LET mine == SelectSeq(life.timers, LAMBDA timer : timer.store = "this")
  IN [i \in 1..Len(mine) |-> mine[i].ms]

C13_AutosaveTimer ==
  /\ Intervals = IF options.save.auto = Num(0)
                 THEN <<>>
                 ELSE IF options.save.auto = Undefined
                 THEN << 60 * 1000 >>
                 ELSE << options.save.auto.n * 1000 >>
  /\ last.op = "timer" /\ last.id = Str("this") => file = JSONStringify(storage)

\* the default timer fired on a store that had nothing unsaved
C13_Witness ==
  /\ last.op = "timer"
  /\ last.id = Str("this")
  /\ options.save.auto = Undefined
  /\ Intervals = << 60000 >>
  /\ file = life.was.this

(***************************************************************************)
(* C14: after construction the content of the file changes only in a step  *)
(* that runs save(): an explicit save, a firing of the autosave timer or   *)
(* an exit or SIGINT listener.  No step of clear, add, set, delete, get,   *)
(* getOne, getFew, find, getAll or forEach changes it, and in a store      *)
(* constructed with save.auto 0 and save.onExit false only an explicit     *)
(* save does.                                                              *)
(***************************************************************************)
C14_OnlySaveWritesTheFile ==
  [][ file' # file =>
        /\ last'.op \in {"save", "timer", "exit", "SIGINT"}
        /\ options.save.auto = Num(0) /\ options.save.onExit = Bool(FALSE) =>
             last'.op = "save" ]_vars

\* clear() emptied the store in memory and the file still holds records
C14_Witness ==
  /\ last.op = "clear"
  /\ storage = <<>>
  /\ prev # <<>>
  /\ file = JSONStringify(prev)

(***************************************************************************)
(* C17: an add or a set whose id is omitted appends exactly one record,    *)
(* and the id of that record is a generated integer of the range of        *)
(* #generateID that is loosely equal to the id of no record that was       *)
(* there before.                                                           *)
(***************************************************************************)
C17_OmittedIdAppendsFreshRecord ==
  last.op \in {"add", "set"} /\ last.id = Undefined =>
    /\ Len(storage) = Len(prev) + 1
    /\ SubSeq(storage, 1, Len(prev)) = prev
    /\ LET id == Prop(storage[Len(storage)], "id")
       IN /\ id.t = "number"
          /\ id.s # "NaN"
          /\ id.n \in 0..MaxRandom
          /\ \A i \in 1..Len(prev) : ~LooseEq(Prop(prev[i], "id"), id)

(***************************************************************************)
(* C18: coercion is idempotent.  Coercing the fields of a record that add  *)
(* or set has just created gives the same fields again, and coercing the   *)
(* records of a store that has just been loaded gives the same records     *)
(* again, for every schema, the ones that rename fields included.          *)
(***************************************************************************)
\* Object.entries(object), in some order
RECURSIVE EntriesOf(_, _)
EntriesOf(object, keys) ==
  IF keys = {}
  THEN <<>>
  ELSE LET k == CHOOSE x \in keys : TRUE
       IN << Entry(k, object[k]) >> \o EntriesOf(object, keys \ {k})

\* the part of C18 about #createRow
CreateRowIsIdempotent ==
  Created =>
    LET fields == CreateRow(last.values)
    IN CreateRow(EntriesOf(fields, DOMAIN fields)) = fields

\* the part of C18 about #structure
StructureIsIdempotent == last.op = "construct" => Structure(storage) = storage

C18_CoercionIsIdempotent == CreateRowIsIdempotent /\ StructureIsIdempotent

(***************************************************************************)
(* C19: set(key, value) of an ObjectStorage never raises.  It stores the   *)
(* value, which get(key) then returns, when no schema was given, or when   *)
(* key is a field of the schema and the value has the field's type or      *)
(* type checking is disabled; in every other case the mapping is as it was *)
(* before.                                                                 *)
(***************************************************************************)
\* the cases in which the last set is to store its value
Accepted ==
  LET key == last.values[1].k
      value == last.values[1].v
  IN \/ ~kv.schema
     \/ /\ key \in FieldNames
        /\ \/ options.checkType = Bool(FALSE)
           \/ TypeOf(value) = Descriptor(key).type

C19_ObjectSet ==
  kv.made /\ last.op = "set" =>
    /\ ~last.thrown
    /\ IF Accepted
       THEN /\ kv.storage = SetKey(prev, last.values[1].k, last.values[1].v)
            /\ GetKey(kv.storage, last.values[1].k) = last.values[1].v
       ELSE kv.storage = prev

(***************************************************************************)
(* C20: a construction that failed on a file that is not JSON leaves       *)
(* nothing behind: the process holds no autosave timer and no exit or      *)
(* SIGINT listener of the failed store, and the file stays as it was       *)
(* found.                                                                  *)
(***************************************************************************)
C20_FailedConstructionLeavesNothing ==
  ~life.made =>
    /\ \A i \in 1..Len(life.timers) : life.timers[i].store # "this"
    /\ \A i \in 1..Len(life.listeners) : life.listeners[i].store # "this"
    /\ file = MalformedFile

(***************************************************************************)
(* C22: get, getOne, getFew and find, chained or not, leave the store's    *)
(* sequence as it was, content and order; getAll(sort) leaves in the store *)
(* the very arrangement it returns, which holds the records that were      *)
(* there before, each as often.                                            *)
(***************************************************************************)
C22_OnlyGetAllReorders ==
  /\ last.op \in {"get", "getOne", "getFew", "find.find", "find.getOne", "find.getFew"} =>
       storage = prev
  /\ last.op = "getAll" =>
       /\ storage = last.result
       /\ Rearranged(prev, storage)

\* getAll left the store in another order than it found it
C22_Witness ==
  /\ last.op = "getAll"
  /\ Len(prev) = 2
  /\ storage # prev
  /\ storage = << prev[2], prev[1] >>

(***************************************************************************)
(* C21: with the autosave timer armed and firing fairly, what a firing     *)
(* writes is the whole in-memory sequence, and that sequence is never one  *)
(* in which a set has been applied in part only; and once the in-memory    *)
(* sequence stops changing, the file comes to hold it and keeps holding    *)
(* it.                                                                     *)
(***************************************************************************)
\* the last operation was a set that stopped half way: it changed the
\* record, and an entry of values that passes the check was not applied
Torn ==
  /\ Updated
  /\ last.thrown
  /\ storage # prev
  /\ LET row == storage[FindIndex(prev, last.id)]
     IN \E k \in PassingKeys(last.values) : Prop(row, k) # Lookup(last.values, k)

\* the file holds the in-memory sequence
Persisted == file = JSONStringify(storage)

\* the part of C21 about what a firing writes
TimerWritesTheSequence == [][last'.op = "timer" => file' = JSONStringify(storage)]_vars

\* the part of C21 about sets applied in part
TimerWritesNoTornSet == [][last'.op = "timer" => ~Torn]_vars

\* the part of C21 about the file catching up
EventuallyPersisted == <>[][storage' = storage]_vars => <>[]Persisted

C21_AutosavePersists ==
  /\ TimerWritesTheSequence
  /\ TimerWritesNoTornSet
  /\ EventuallyPersisted

====
